---- MODULE Spec2Model ----
(***************************************************************************)
(* A model of the WhatsApp engine: class WhatsAppEngine as it stands in    *)
(* src/index.js (credentials in a database, "db") and in                    *)
(* src/unnamed/part_000 (credentials in a session directory, "file"), and  *)
(* the credential table of src/unnamed/part_001.                           *)
(*                                                                         *)
(* Node runs one synchronous segment at a time.  An async handler runs up  *)
(* to its first await when the emitter or the router calls it, and the     *)
(* rest of it runs when the awaited promise settles; the emitter never     *)
(* waits for the promise a handler returns.  Every action below is one     *)
(* such synchronous segment; what a handler still has to do after an await *)
(* is a record in tasks (connects for connect()).                          *)
(*                                                                         *)
(* last names the segment that ran last with its inputs, out lists what    *)
(* that segment emitted: broadcasts, webhook calls, HTTP responses, timers *)
(* set, session calls, log lines.                                          *)
(***************************************************************************)
EXTENDS Integers, Sequences, FiniteSets, TLC

VARIABLES impl, sock, nsock, live, status, qrCode, table, sessionDir,
          timers, connects, tasks, messages, conversations, arrived,
          last, out

vars == <<impl, sock, nsock, live, status, qrCode, table, sessionDir,
          timers, connects, tasks, messages, conversations, arrived,
          last, out>>

(***************************************************************************)
(* Bounds of the model.                                                    *)
(***************************************************************************)
MaxSocks == 2
MaxTimers == 2
MaxConnects == 2
MaxTasks == 1
MaxAppend == 51
MaxOther == 1

(***************************************************************************)
(* Program constants.                                                      *)
(***************************************************************************)
ReconnectDelay == 3000
RetryDelay == 5000
DisconnectDelay == 1000
HistoryCap == 50
DefaultLimit == 20
Delays == {DisconnectDelay, ReconnectDelay, RetryDelay}

Impls == {"db", "file"}
Null == <<>>
NoQr == "undefined"
RawQrs == {"XYZ"}
LoggedOut == "loggedOut"
Reasons == {LoggedOut, "connectionLost"}
Connections == {"undefined", "open", "close"}
Outcomes == {"ok", "throw"}
SessionId == "default"

(***************************************************************************)
(* Sequence helpers.                                                       *)
(***************************************************************************)
Remove(seq, i) == [j \in 1..(Len(seq) - 1) |-> IF j < i THEN seq[j] ELSE seq[j + 1]]
Replace(seq, i, x) == [seq EXCEPT ![i] = x]

(***************************************************************************)
(* qrcode.toDataURL: the raw challenge encoded as a data URL.              *)
(***************************************************************************)
toDataURL(raw) == <<"data:image/png;base64", raw>>

(***************************************************************************)
(* Timers: setTimeout(() => this.connect(), delay).                        *)
(***************************************************************************)
TimerCount(tm) == tm[DisconnectDelay] + tm[ReconnectDelay] + tm[RetryDelay]
setTimeout(tm, delay) == [tm EXCEPT ![delay] = @ + 1]
TimerSet(delay) == [k |-> "timer", delay |-> delay]

(***************************************************************************)
(* broadcast(): io.emit("status", status); io.emit("qr", qrCode).          *)
(***************************************************************************)
broadcast(st, q) == <<[k |-> "status", v |-> st], [k |-> "qr", q |-> q]>>

(***************************************************************************)
(* res.status(code).json(body): the status code, body.success (FALSE when  *)
(* the body has none), the message or error text and body.messageId.       *)
(***************************************************************************)
Res(code, success, text, messageId) ==
    [k |-> "res", code |-> code, success |-> success, text |-> text,
     messageId |-> messageId]

(***************************************************************************)
(* The credential table of dbSessionStore: rows (session_id, data) with a  *)
(* UNIQUE session_id.  A credential value is a Buffer of key material, a   *)
(* plain JSON object, or null.  stringify is JSON.stringify, which calls   *)
(* Buffer.prototype.toJSON and so writes a Buffer as the plain object      *)
(* {type: "Buffer", data: [...]}; parse is JSON.parse without a reviver,   *)
(* which leaves that object as it is.  getSession answers null (NoAuth)    *)
(* when there is no row.                                                   *)
(***************************************************************************)
Buffer(n) == [cls |-> "Buffer", data |-> n]
Plain(n) == [cls |-> "Object", data |-> n]
NoValue == [cls |-> "null", data |-> 0]
toJSON(v) == IF v.cls = "Buffer" THEN Plain(v.data) ELSE v

stringify(data) == <<"json", [f \in DOMAIN data |-> toJSON(data[f])]>>
parse(json) == json[2]
Creds(s) == [creds |-> Buffer(s), keys |-> Buffer(s)]
NoAuth == [creds |-> NoValue, keys |-> NoValue]

HasRow(tbl, id) == \E i \in 1..Len(tbl) : tbl[i].session_id = id
RowOf(tbl, id) == CHOOSE i \in 1..Len(tbl) : tbl[i].session_id = id

saveSession(tbl, id, data) ==
    IF HasRow(tbl, id)
    THEN [tbl EXCEPT ![RowOf(tbl, id)].data = stringify(data)]
    ELSE Append(tbl, [session_id |-> id, data |-> stringify(data)])

getSession(tbl, id) ==
    IF HasRow(tbl, id) THEN parse(tbl[RowOf(tbl, id)].data) ELSE NoAuth

deleteSession(tbl, id) == SelectSeq(tbl, LAMBDA r : r.session_id # id)

(***************************************************************************)
(* The session directory of useMultiFileAuthState: absent, or holding the  *)
(* credentials last written by saveCreds (NoAuth: none written yet).  The  *)
(* files are written and read with BufferJSON, which restores Buffers.     *)
(***************************************************************************)
NoDir == [exists |-> FALSE, creds |-> NoValue, keys |-> NoValue]
Dir(data) == [exists |-> TRUE, creds |-> data.creds, keys |-> data.keys]
DirAuth(dir) == [creds |-> dir.creds, keys |-> dir.keys]

(***************************************************************************)
(* The state after the constructor: every field at its initial value and   *)
(* the first connect() suspended at its first await.                       *)
(***************************************************************************)
FirstPc(im) == IF im = "db" THEN "fetchVersion" ELSE "useAuthState"

Init ==
    /\ impl \in Impls
    /\ sock = 0
    /\ nsock = 0
    /\ live = {}
    /\ status = "disconnected"
    /\ qrCode = Null
    /\ table = <<>>
    /\ sessionDir = NoDir
    /\ timers = [d \in Delays |-> 0]
    /\ connects = <<[pc |-> FirstPc(impl), auth |-> NoAuth]>>
    /\ tasks = <<>>
    /\ messages = <<>>
    /\ conversations = <<>>
    /\ arrived = <<>>
    /\ last = [op |-> "constructor"]
    /\ out = <<>>

(***************************************************************************)
(* A reconnection timer fires and calls connect(), which runs up to its    *)
(* first await.                                                            *)
(***************************************************************************)
TimerFires(delay) ==
    /\ timers[delay] > 0
    /\ Len(connects) < MaxConnects
    /\ timers' = [timers EXCEPT ![delay] = @ - 1]
    /\ connects' = Append(connects, [pc |-> FirstPc(impl), auth |-> NoAuth])
    /\ last' = [op |-> "timer", delay |-> delay]
    /\ out' = <<[k |-> "connect"]>>
    /\ UNCHANGED <<impl, sock, nsock, live, status, qrCode, table, sessionDir,
                   tasks, messages, conversations, arrived>>

(***************************************************************************)
(* connect(): the catch block.                                             *)
(***************************************************************************)
connectCatch(i) ==
    /\ TimerCount(timers) < MaxTimers
    /\ timers' = setTimeout(timers, RetryDelay)
    /\ connects' = Remove(connects, i)
    /\ out' = <<TimerSet(RetryDelay)>>
    /\ UNCHANGED <<sock, nsock, live, sessionDir>>

(***************************************************************************)
(* connect(): makeWASocket and the registration of the handlers.           *)
(***************************************************************************)
connectMake(i, auth) ==
    /\ nsock < MaxSocks
    /\ nsock' = nsock + 1
    /\ sock' = nsock + 1
    /\ live' = live \cup {nsock + 1}
    /\ connects' = Remove(connects, i)
    /\ out' = <<[k |-> "makeWASocket", auth |-> auth]>>
    /\ UNCHANGED <<timers, sessionDir>>

(***************************************************************************)
(* connect() resumes after an await.  db: fetchLatestBaileysVersion, then  *)
(* getSession, then makeWASocket.  file: useMultiFileAuthState (which      *)
(* creates the directory), then fetchLatestBaileysVersion, then            *)
(* makeWASocket.  outcome "throw": the awaited call rejected, or           *)
(* makeWASocket threw.  outcome "unparsable" (db, getSession only): the    *)
(* row's data made JSON.parse throw, which getSession catches to answer    *)
(* null, so that connect() goes on without credentials.  attemptThrows     *)
(* tells whether an outcome takes connect() to its catch block;            *)
(* attemptThrowsOnNull is a connect() that treats a load without           *)
(* credentials as an error.                                                *)
(***************************************************************************)
LoadOutcomes == Outcomes \cup {"unparsable"}

attemptThrowsOnNull(outcome) == outcome # "ok"

attemptThrows(outcome) == outcome = "throw"

connectResume(i, outcome) ==
    /\ i \in 1..Len(connects)
    /\ outcome = "unparsable" => (impl = "db" /\ connects[i].pc = "getSession")
    /\ LET c == connects[i] IN
       /\ last' = [op |-> "connect", pc |-> c.pc, outcome |-> outcome]
       /\ IF attemptThrows(outcome) THEN connectCatch(i)
          ELSE IF impl = "db" /\ c.pc = "fetchVersion" THEN
             /\ connects' = Replace(connects, i, [c EXCEPT !.pc = "getSession"])
             /\ out' = <<>>
             /\ UNCHANGED <<sock, nsock, live, timers, sessionDir>>
          ELSE IF impl = "db" /\ c.pc = "getSession" THEN
             connectMake(i, IF outcome = "unparsable" THEN NoAuth
                            ELSE getSession(table, SessionId))
          ELSE IF c.pc = "useAuthState" THEN
             /\ connects' = Replace(connects, i,
                    [pc |-> "fetchVersion", auth |-> DirAuth(sessionDir)])
             /\ sessionDir' = [sessionDir EXCEPT !.exists = TRUE]
             /\ out' = <<>>
             /\ UNCHANGED <<sock, nsock, live, timers>>
          ELSE connectMake(i, c.auth)
    /\ UNCHANGED <<impl, status, qrCode, table, tasks, messages, conversations,
                   arrived>>

(***************************************************************************)
(* The connection.update handler after "if (qr) {...}": the close and open *)
(* branches.  The result is the new status, QR artifact and timers and     *)
(* what was emitted.  Each branch assigns this.status and this.qrCode and   *)
(* then calls broadcast(), which emits the two fields as they are then.    *)
(* connectionBranchEarly is a handler that calls broadcast() before the    *)
(* assignments; connectionBranchKeepQr one whose open branch does not       *)
(* clear this.qrCode.                                                      *)
(***************************************************************************)
shouldReconnectAlways(reason) == TRUE

shouldReconnect(reason) == reason # LoggedOut

connectionBranchEarly(connection, reason, st, q, tm) ==
    IF connection = "close" THEN
        [status |-> "disconnected", qrCode |-> Null,
         timers |-> IF shouldReconnect(reason)
                    THEN setTimeout(tm, ReconnectDelay) ELSE tm,
         out |-> (IF shouldReconnect(reason)
                  THEN <<TimerSet(ReconnectDelay)>> ELSE <<>>)
                 \o broadcast(st, q)]
    ELSE IF connection = "open" THEN
        [status |-> "connected", qrCode |-> Null, timers |-> tm,
         out |-> broadcast(st, q)]
    ELSE [status |-> st, qrCode |-> q, timers |-> tm, out |-> <<>>]

connectionBranchKeepQr(connection, reason, st, q, tm) ==
    IF connection = "close" THEN
        [status |-> "disconnected", qrCode |-> Null,
         timers |-> IF shouldReconnect(reason)
                    THEN setTimeout(tm, ReconnectDelay) ELSE tm,
         out |-> (IF shouldReconnect(reason)
                  THEN <<TimerSet(ReconnectDelay)>> ELSE <<>>)
                 \o broadcast("disconnected", Null)]
    ELSE IF connection = "open" THEN
        [status |-> "connected", qrCode |-> q, timers |-> tm,
         out |-> broadcast("connected", q)]
    ELSE [status |-> st, qrCode |-> q, timers |-> tm, out |-> <<>>]

connectionBranch(connection, reason, st, q, tm) ==
    IF connection = "close" THEN
        [status |-> "disconnected", qrCode |-> Null,
         timers |-> IF shouldReconnect(reason)
                    THEN setTimeout(tm, ReconnectDelay) ELSE tm,
         out |-> (IF shouldReconnect(reason)
                  THEN <<TimerSet(ReconnectDelay)>> ELSE <<>>)
                 \o broadcast("disconnected", Null)]
    ELSE IF connection = "open" THEN
        [status |-> "connected", qrCode |-> Null, timers |-> tm,
         out |-> broadcast("connected", Null)]
    ELSE [status |-> st, qrCode |-> q, timers |-> tm, out |-> <<>>]

(***************************************************************************)
(* Session s emits connection.update {connection, lastDisconnect, qr}.     *)
(* With a qr the handler suspends at await qrcode.toDataURL(qr); without   *)
(* one it runs to its end.  A session that has closed emits nothing but a  *)
(* repeated close.  An update with neither qr nor open nor close changes   *)
(* nothing and is left out; lastDisconnect is read on close only.          *)
(***************************************************************************)
connectionUpdate(s, qr, connection, reason) ==
    /\ s \in 1..nsock
    /\ s \notin live => (connection = "close" /\ qr = NoQr)
    /\ connection # "close" => reason = LoggedOut
    /\ qr # NoQr \/ connection # "undefined"
    /\ last' = [op |-> "connection.update", s |-> s, qr |-> qr,
                connection |-> connection, reason |-> reason]
    /\ live' = IF connection = "close" THEN live \ {s} ELSE live
    /\ IF qr # NoQr THEN
          /\ Len(tasks) < MaxTasks
          /\ tasks' = Append(tasks, [kind |-> "qr", s |-> s, qr |-> qr,
                                     connection |-> connection, reason |-> reason])
          /\ out' = <<>>
          /\ UNCHANGED <<status, qrCode, timers>>
       ELSE LET e == connectionBranch(connection, reason, status, qrCode, timers) IN
          /\ TimerCount(e.timers) <= MaxTimers
          /\ status' = e.status
          /\ qrCode' = e.qrCode
          /\ timers' = e.timers
          /\ out' = e.out
          /\ UNCHANGED tasks
    /\ UNCHANGED <<impl, sock, nsock, table, sessionDir, connects, messages,
                   conversations, arrived>>

(***************************************************************************)
(* toDataURL resolved: the handler sets the artifact and the status,       *)
(* broadcasts, and goes on to the close and open branches.                 *)
(***************************************************************************)
qrResume(i) ==
    /\ i \in 1..Len(tasks)
    /\ tasks[i].kind = "qr"
    /\ LET t == tasks[i]
           e == connectionBranch(t.connection, t.reason, "qr", toDataURL(t.qr), timers)
       IN /\ TimerCount(e.timers) <= MaxTimers
          /\ status' = e.status
          /\ qrCode' = e.qrCode
          /\ timers' = e.timers
          /\ out' = broadcast("qr", toDataURL(t.qr)) \o e.out
          /\ last' = [op |-> "connection.update.qr", s |-> t.s, qr |-> t.qr,
                      connection |-> t.connection, reason |-> t.reason]
    /\ tasks' = Remove(tasks, i)
    /\ UNCHANGED <<impl, sock, nsock, live, table, sessionDir, connects, messages,
                   conversations, arrived>>

(***************************************************************************)
(* Session s emits creds.update.                                           *)
(* db: the handler reads this.sock.authState.creds (a TypeError, and so an *)
(* unhandled rejection, when this.sock is null) and suspends at            *)
(* await this.sock.authState.keys.getAll().                                *)
(* file: the handler is saveCreds of the useMultiFileAuthState call of     *)
(* that session, which writes the session's credentials to the directory.  *)
(***************************************************************************)
credsUpdate(s) ==
    /\ s \in live
    /\ last' = [op |-> "creds.update", s |-> s]
    /\ IF impl = "db" /\ sock = 0 THEN
          /\ out' = <<[k |-> "unhandledRejection"]>>
          /\ UNCHANGED tasks
       ELSE
          /\ Len(tasks) < MaxTasks
          /\ tasks' = Append(tasks,
                [kind |-> "creds", s |-> s,
                 pc |-> IF impl = "db" THEN "getAll" ELSE "save",
                 data |-> IF impl = "db" THEN Creds(sock) ELSE Creds(s)])
          /\ out' = <<>>
    /\ UNCHANGED <<impl, sock, nsock, live, status, qrCode, table, sessionDir,
                   timers, connects, messages, conversations, arrived>>

(***************************************************************************)
(* The creds.update handler resumes: after keys.getAll() it calls          *)
(* saveSession("default", authState) and awaits it; after the write it     *)
(* logs.  A rejected await rejects the handler's promise, which nothing    *)
(* catches.                                                                *)
(***************************************************************************)
credsResume(i, outcome) ==
    /\ i \in 1..Len(tasks)
    /\ tasks[i].kind = "creds"
    /\ LET t == tasks[i] IN
       /\ last' = [op |-> "creds.update." \o t.pc, s |-> t.s, outcome |-> outcome]
       /\ IF outcome = "throw" THEN
             /\ tasks' = Remove(tasks, i)
             /\ out' = <<[k |-> "unhandledRejection"]>>
             /\ UNCHANGED <<table, sessionDir>>
          ELSE IF t.pc = "getAll" THEN
             /\ tasks' = Replace(tasks, i, [t EXCEPT !.pc = "save"])
             /\ out' = <<[k |-> "saveSession"]>>
             /\ UNCHANGED <<table, sessionDir>>
          ELSE
             /\ tasks' = Remove(tasks, i)
             /\ IF impl = "db"
                THEN /\ table' = saveSession(table, SessionId, t.data)
                     /\ out' = <<[k |-> "log", text |-> "session updated in DB"]>>
                     /\ UNCHANGED sessionDir
                ELSE /\ sessionDir.exists
                     /\ sessionDir' = Dir(t.data)
                     /\ out' = <<>>
                     /\ UNCHANGED table
    /\ UNCHANGED <<impl, sock, nsock, live, status, qrCode, timers, connects,
                   messages, conversations, arrived>>

(***************************************************************************)
(* cleanup(): the session handle, the artifact and the status are reset,   *)
(* file removes the session directory, and the state is broadcast.         *)
(***************************************************************************)
cleanup ==
    /\ sock' = 0
    /\ qrCode' = Null
    /\ status' = "disconnected"
    /\ sessionDir' = IF impl = "file" THEN NoDir ELSE sessionDir

(***************************************************************************)
(* POST /disconnect up to await this.sock.logout().                        *)
(***************************************************************************)
disconnect ==
    /\ last' = [op |-> "POST /disconnect"]
    /\ IF sock # 0 /\ status = "connected" THEN
          /\ Len(tasks) < MaxTasks
          /\ tasks' = Append(tasks, [kind |-> "disconnect", s |-> sock])
          /\ out' = <<[k |-> "logout", s |-> sock]>>
       ELSE
          /\ out' = <<Res(200, FALSE, "not connected", "")>>
          /\ UNCHANGED tasks
    /\ UNCHANGED <<impl, sock, nsock, live, status, qrCode, table, sessionDir,
                   timers, connects, messages, conversations, arrived>>

(***************************************************************************)
(* POST /disconnect after logout() settled.  A logout that resolved ended  *)
(* the session.  db: cleanup and success, or 500 from the catch block when *)
(* logout rejected.  file: cleanup, a connect() timer of 1 second and      *)
(* success, in the try and in the catch block alike.                       *)
(***************************************************************************)
disconnectResume(i, outcome) ==
    /\ i \in 1..Len(tasks)
    /\ tasks[i].kind = "disconnect"
    /\ last' = [op |-> "POST /disconnect.logout", s |-> tasks[i].s, outcome |-> outcome]
    /\ tasks' = Remove(tasks, i)
    /\ live' = IF outcome = "ok" THEN live \ {tasks[i].s} ELSE live
    /\ IF impl = "db" /\ outcome = "throw" THEN
          /\ out' = <<Res(500, FALSE, "Disconnect failed", "")>>
          /\ UNCHANGED <<sock, qrCode, status, sessionDir, timers>>
       ELSE
          /\ cleanup
          /\ IF impl = "file"
             THEN /\ TimerCount(timers) < MaxTimers
                  /\ timers' = setTimeout(timers, DisconnectDelay)
                  /\ out' = broadcast("disconnected", Null)
                            \o <<TimerSet(DisconnectDelay),
                                 Res(200, TRUE, "Disconnected", "")>>
             ELSE /\ out' = broadcast("disconnected", Null)
                            \o <<Res(200, TRUE, "Disconnected", "")>>
                  /\ UNCHANGED timers
    /\ UNCHANGED <<impl, nsock, table, connects, messages, conversations, arrived>>

(***************************************************************************)
(* sendWebhook(eventType, data): one axios.post inside a try whose catch   *)
(* logs.  outcome is how the delivery ends: "2xx", "4xx", "5xx", "network" *)
(* (no response), "timeout", or "require": file calls require("axios"),    *)
(* which throws a ReferenceError before any POST where require is not      *)
(* defined (an ES module).  sendWebhookCall is what the call emits at      *)
(* once, sendWebhookEnd what it emits when the POST has settled: every     *)
(* failure ends in the catch block, which logs and returns.                *)
(* sendWebhookRetry is a sendWebhook whose catch block posts once more.    *)
(***************************************************************************)
WebhookOutcomes == {"2xx", "4xx", "5xx", "network", "timeout", "require"}

sendWebhookCall(eventType, messageId, outcome) ==
    <<[k |-> "sendWebhook", event_type |-> eventType, message_id |-> messageId]>>
    \o (IF outcome = "require" THEN <<>>
        ELSE <<[k |-> "POST", event_type |-> eventType, message_id |-> messageId]>>)

sendWebhookRetry(eventType, outcome) ==
    IF outcome = "2xx" THEN <<>>
    ELSE <<[k |-> "POST", event_type |-> eventType, message_id |-> ""],
           [k |-> "log", text |-> "Webhook failed", event_type |-> eventType]>>

sendWebhookEnd(eventType, outcome) ==
    IF outcome = "2xx" THEN <<>>
    ELSE <<[k |-> "log", text |-> "Webhook failed", event_type |-> eventType]>>

(***************************************************************************)
(* Peer identifiers: user@server.                                          *)
(***************************************************************************)
Individual == "s.whatsapp.net"
Group == "g.us"
Jid(user, server) == [user |-> user, server |-> server]

(***************************************************************************)
(* jid.replace("@s.whatsapp.net", "").replace("@g.us", "") and             *)
(* jid.includes("@g.us").                                                  *)
(***************************************************************************)
stripSuffix(jid) ==
    IF jid.server \in {Individual, Group} THEN Jid(jid.user, "") ELSE jid
isGroup(jid) == jid.server = Group

(***************************************************************************)
(* POST /send up to await this.sock.onWhatsApp(number).  this.sock null    *)
(* throws a TypeError inside the try.  notConnected is the handler's first *)
(* test, this.status !== "connected"; notConnectedNever is a handler       *)
(* without it.                                                             *)
(***************************************************************************)
Numbers == {"", "15551234567"}
Texts == {"", "hi"}
MessageIds == {"ABC123"}
LookupOutcomes == {"throw", "empty", "notExists", "exists"}

notConnectedNever(st) == FALSE

notConnected(st) == st # "connected"

send(number, message) ==
    /\ last' = [op |-> "POST /send", number |-> number, message |-> message]
    /\ IF notConnected(status) THEN
          /\ out' = <<Res(400, FALSE, "WhatsApp not connected", "")>>
          /\ UNCHANGED tasks
       ELSE IF number = "" \/ message = "" THEN
          /\ out' = <<Res(400, FALSE, "Number and message required", "")>>
          /\ UNCHANGED tasks
       ELSE IF sock = 0 THEN
          /\ out' = <<Res(500, FALSE, "Failed to send", "")>>
          /\ UNCHANGED tasks
       ELSE
          /\ Len(tasks) < MaxTasks
          /\ tasks' = Append(tasks, [kind |-> "send", pc |-> "onWhatsApp",
                                     number |-> number, message |-> message,
                                     messageId |-> ""])
          /\ out' = <<[k |-> "onWhatsApp", s |-> sock, number |-> number]>>
    /\ UNCHANGED <<impl, sock, nsock, live, status, qrCode, table, sessionDir,
                   timers, connects, messages, conversations, arrived>>

(***************************************************************************)
(* POST /send after the lookup settled: 400 when the result is empty or    *)
(* its first entry does not exist, 500 when the lookup rejected or         *)
(* this.sock is null by now, else this.sock.sendMessage(jid, {text}).      *)
(***************************************************************************)
peerListed(outcome) == outcome # "empty"

peerExists(outcome) == outcome = "exists"

sendLookup(i, outcome) ==
    /\ i \in 1..Len(tasks)
    /\ tasks[i].kind = "send"
    /\ tasks[i].pc = "onWhatsApp"
    /\ LET t == tasks[i] IN
       /\ last' = [op |-> "POST /send.onWhatsApp", number |-> t.number,
                   outcome |-> outcome]
       /\ IF outcome = "throw" THEN
             /\ tasks' = Remove(tasks, i)
             /\ out' = <<Res(500, FALSE, "Failed to send", "")>>
          ELSE IF ~peerExists(outcome) THEN
             /\ tasks' = Remove(tasks, i)
             /\ out' = <<Res(400, FALSE,
                             IF impl = "db" \/ outcome = "empty"
                             THEN "Invalid number"
                             ELSE "Number not found on WhatsApp", "")>>
          ELSE IF sock = 0 THEN
             /\ tasks' = Remove(tasks, i)
             /\ out' = <<Res(500, FALSE, "Failed to send", "")>>
          ELSE
             /\ tasks' = Replace(tasks, i, [t EXCEPT !.pc = "sendMessage"])
             /\ out' = <<[k |-> "sendMessage", s |-> sock,
                          jid |-> Jid(t.number, Individual), text |-> t.message]>>
    /\ UNCHANGED <<impl, sock, nsock, live, status, qrCode, table, sessionDir,
                   timers, connects, messages, conversations, arrived>>

(***************************************************************************)
(* POST /send after sendMessage settled: 500 when it rejected; else        *)
(* sendWebhook("message_sent", ...), which db awaits before it answers and *)
(* file does not.  sendResponse is the answer after sendWebhook: success   *)
(* with the message id, whatever became of the delivery, which sendWebhook *)
(* catches.  sendRethrown is the answer if sendWebhook let the failure     *)
(* through to the handler's catch block.                                   *)
(***************************************************************************)
sendRethrown(messageId, webhook) ==
    IF webhook = "2xx" THEN Res(200, TRUE, "Message sent", messageId)
    ELSE Res(500, FALSE, "Failed to send", "")

sendResponse(messageId, webhook) == Res(200, TRUE, "Message sent", messageId)

sendSent(i, outcome, messageId, webhook) ==
    /\ i \in 1..Len(tasks)
    /\ tasks[i].kind = "send"
    /\ tasks[i].pc = "sendMessage"
    /\ LET t == tasks[i] IN
       /\ last' = [op |-> "POST /send.sendMessage", number |-> t.number,
                   outcome |-> outcome, messageId |-> messageId,
                   webhook |-> webhook]
       /\ IF outcome = "throw" THEN
             /\ tasks' = Remove(tasks, i)
             /\ out' = <<Res(500, FALSE, "Failed to send", "")>>
          ELSE IF impl = "db" THEN
             /\ webhook # "require"
             /\ tasks' = Replace(tasks, i,
                    [t EXCEPT !.pc = "sendWebhook", !.messageId = messageId])
             /\ out' = sendWebhookCall("message_sent", messageId, webhook)
          ELSE
             /\ tasks' = Remove(tasks, i)
             /\ out' = sendWebhookCall("message_sent", messageId, webhook)
                       \o sendWebhookEnd("message_sent", webhook)
                       \o <<sendResponse(messageId, webhook)>>
    /\ UNCHANGED <<impl, sock, nsock, live, status, qrCode, table, sessionDir,
                   timers, connects, messages, conversations, arrived>>

(***************************************************************************)
(* POST /send (db) after the awaited sendWebhook settled: it never         *)
(* rejects, and the handler answers with the message id.                   *)
(***************************************************************************)
sendAnswer(i, webhook) ==
    /\ i \in 1..Len(tasks)
    /\ tasks[i].kind = "send"
    /\ tasks[i].pc = "sendWebhook"
    /\ webhook # "require"
    /\ last' = [op |-> "POST /send.sendWebhook", number |-> tasks[i].number,
                messageId |-> tasks[i].messageId, webhook |-> webhook]
    /\ tasks' = Remove(tasks, i)
    /\ out' = sendWebhookEnd("message_sent", webhook)
              \o <<sendResponse(tasks[i].messageId, webhook)>>
    /\ UNCHANGED <<impl, sock, nsock, live, status, qrCode, table, sessionDir,
                   timers, connects, messages, conversations, arrived>>

(***************************************************************************)
(* A Map as the sequence of its entries in insertion order.                *)
(***************************************************************************)
mapHas(m, key) == \E i \in 1..Len(m) : m[i].key = key
mapIndex(m, key) == CHOOSE i \in 1..Len(m) : m[i].key = key
mapGet(m, key) == m[mapIndex(m, key)].value
mapSet(m, key, value) ==
    IF mapHas(m, key) THEN [m EXCEPT ![mapIndex(m, key)].value = value]
    ELSE Append(m, [key |-> key, value |-> value])
getOrEmpty(m, key) == IF mapHas(m, key) THEN mapGet(m, key) ELSE <<>>

(***************************************************************************)
(* Array.prototype.slice(start) and shift().                               *)
(***************************************************************************)
slice(arr, start) ==
    LET from == IF start < 0
                THEN (IF Len(arr) + start < 0 THEN 0 ELSE Len(arr) + start)
                ELSE (IF start > Len(arr) THEN Len(arr) ELSE start)
    IN SubSeq(arr, from + 1, Len(arr))
shift(arr) == Tail(arr)

(***************************************************************************)
(* messages.upsert: the record built from a message, and the per-chat      *)
(* array after messages.push(messageData) and the trim to the last 50.     *)
(***************************************************************************)
Now == 1000
MediaOther == "[Media/Other]"

messageText(message) ==
    IF message.conversation # "" THEN message.conversation
    ELSE IF message.extendedText # "" THEN message.extendedText
    ELSE MediaOther

messageData(message) ==
    [id |-> message.id,
     from |-> stripSuffix(message.remoteJid),
     message |-> messageText(message),
     timestamp |-> IF message.messageTimestamp # 0
                   THEN message.messageTimestamp ELSE Now,
     fromMe |-> message.fromMe]

pushTrimNewest(arr, record) ==
    LET pushed == Append(arr, record)
    IN IF Len(pushed) > HistoryCap THEN SubSeq(pushed, 1, HistoryCap) ELSE pushed

pushTrim(arr, record) ==
    LET pushed == Append(arr, record)
    IN IF Len(pushed) > HistoryCap THEN shift(pushed) ELSE pushed

(***************************************************************************)
(* Session s emits messages.upsert {messages, type} (file registers the    *)
(* handler, db registers none).  Only messages[0] of a "notify" event is   *)
(* read: it is stored in this.messages and this.conversations, emitted as  *)
(* new-message and, unless fromMe, handed to sendWebhook, which is not     *)
(* awaited.  arrived keeps every record the handler stored, per chat.      *)
(***************************************************************************)
messagesUpsert(s, type, batch, webhook) ==
    /\ impl = "file"
    /\ s \in live
    /\ last' = [op |-> "messages.upsert", s |-> s, type |-> type, batch |-> batch]
    /\ IF Len(batch) > 0 /\ type = "notify" THEN
          LET message == batch[1]
              jid == message.remoteJid
              record == messageData(message)
          IN /\ messages' = mapSet(messages, jid,
                                   pushTrim(getOrEmpty(messages, jid), record))
             /\ conversations' = mapSet(conversations, jid,
                                   Append(getOrEmpty(conversations, jid), record))
             /\ arrived' = mapSet(arrived, jid,
                                   Append(getOrEmpty(arrived, jid), record))
             /\ out' = <<[k |-> "new-message", record |-> record]>>
                       \o (IF ~record.fromMe
                           THEN sendWebhookCall("message_received", message.id, webhook)
                                \o sendWebhookEnd("message_received", webhook)
                           ELSE <<>>)
       ELSE
          /\ out' = <<>>
          /\ UNCHANGED <<messages, conversations, arrived>>
    /\ UNCHANGED <<impl, sock, nsock, live, status, qrCode, table, sessionDir,
                   timers, connects, tasks>>

(***************************************************************************)
(* Session s emits messages.update with a list of updates (file only).     *)
(* For each update with a status: 3 hands message_delivered to             *)
(* sendWebhook, 4 hands message_read to it, any other status nothing.      *)
(* status 0 stands for an update without a status.  sendWebhook is not     *)
(* awaited.  statusEventSwapped is a handler with the two events swapped.  *)
(***************************************************************************)
statusEventSwapped(st) ==
    IF st = 3 THEN "message_read"
    ELSE IF st = 4 THEN "message_delivered"
    ELSE "none"

statusEvent(st) ==
    IF st = 3 THEN "message_delivered"
    ELSE IF st = 4 THEN "message_read"
    ELSE "none"

RECURSIVE updateWebhooks(_, _)
updateWebhooks(updates, webhook) ==
    IF updates = <<>> THEN <<>>
    ELSE LET update == Head(updates)
         IN (IF update.status # 0 /\ statusEvent(update.status) # "none"
             THEN sendWebhookCall(statusEvent(update.status), update.id, webhook)
                  \o sendWebhookEnd(statusEvent(update.status), webhook)
             ELSE <<>>)
            \o updateWebhooks(Tail(updates), webhook)

messagesUpdate(s, updates, webhook) ==
    /\ impl = "file"
    /\ s \in live
    /\ last' = [op |-> "messages.update", s |-> s, updates |-> updates,
                webhook |-> webhook]
    /\ out' = updateWebhooks(updates, webhook)
    /\ UNCHANGED <<impl, sock, nsock, live, status, qrCode, table, sessionDir,
                   timers, connects, tasks, messages, conversations, arrived>>

(***************************************************************************)
(* GET /messages/:number?limit up to await this.sock.onWhatsApp(number).   *)
(* limit 0 stands for a missing or unparsable limit.                       *)
(***************************************************************************)
parseLimit(limit) == IF limit = 0 THEN DefaultLimit ELSE limit

ResMessages(code, success, text, msgs) ==
    [k |-> "res", code |-> code, success |-> success, text |-> text,
     messages |-> msgs]

getMessages(number, limit) ==
    /\ impl = "file"
    /\ last' = [op |-> "GET /messages", number |-> number, limit |-> limit]
    /\ IF status # "connected" THEN
          /\ out' = <<Res(400, FALSE, "WhatsApp not connected", "")>>
          /\ UNCHANGED tasks
       ELSE IF sock = 0 THEN
          /\ out' = <<Res(500, FALSE, "Failed to fetch messages", "")>>
          /\ UNCHANGED tasks
       ELSE
          /\ Len(tasks) < MaxTasks
          /\ tasks' = Append(tasks, [kind |-> "getMessages", number |-> number,
                                     limit |-> parseLimit(limit)])
          /\ out' = <<[k |-> "onWhatsApp", s |-> sock, number |-> number]>>
    /\ UNCHANGED <<impl, sock, nsock, live, status, qrCode, table, sessionDir,
                   timers, connects, messages, conversations, arrived>>

(***************************************************************************)
(* GET /messages/:number after the lookup settled: the last limit records  *)
(* stored for the jid the lookup returned.                                 *)
(***************************************************************************)
getMessagesResume(i, outcome) ==
    /\ i \in 1..Len(tasks)
    /\ tasks[i].kind = "getMessages"
    /\ LET t == tasks[i]
           jid == Jid(t.number, Individual)
       IN /\ last' = [op |-> "GET /messages.onWhatsApp", number |-> t.number,
                      limit |-> t.limit, outcome |-> outcome, jid |-> jid]
          /\ out' = IF outcome = "throw"
                    THEN <<Res(500, FALSE, "Failed to fetch messages", "")>>
                    ELSE IF ~peerExists(outcome)
                    THEN <<Res(400, FALSE, "Number not found on WhatsApp", "")>>
                    ELSE <<ResMessages(200, TRUE, "",
                              slice(getOrEmpty(messages, jid), 0 - t.limit))>>
    /\ tasks' = Remove(tasks, i)
    /\ UNCHANGED <<impl, sock, nsock, live, status, qrCode, table, sessionDir,
                   timers, connects, messages, conversations, arrived>>

(***************************************************************************)
(* GET /conversations?limit: the loop over this.conversations.entries(),   *)
(* which stops at limit summaries and skips groups.                        *)
(***************************************************************************)
summary(jid, msgs) ==
    LET number == stripSuffix(jid)
        has == Len(msgs) > 0
        lastMessage == msgs[Len(msgs)]
    IN [id |-> jid, number |-> number, name |-> number, isGroup |-> FALSE,
        unreadCount |-> 0,
        lastMessage |-> IF has /\ lastMessage.message # ""
                        THEN lastMessage.message ELSE "No messages",
        lastMessageTime |-> IF has /\ lastMessage.timestamp # 0
                            THEN lastMessage.timestamp ELSE Now,
        lastMessageFromMe |-> has /\ lastMessage.fromMe]

listedAny(jid) == TRUE

listed(jid) == ~isGroup(jid)

RECURSIVE listConversations(_, _, _)
listConversations(entries, limit, acc) ==
    IF entries = <<>> \/ Len(acc) >= limit THEN acc
    ELSE listConversations(Tail(entries), limit,
            IF listed(Head(entries).key)
            THEN Append(acc, summary(Head(entries).key, Head(entries).value))
            ELSE acc)

ResConversations(code, success, list) ==
    [k |-> "res", code |-> code, success |-> success, conversations |-> list]

getConversations(limit) ==
    /\ impl = "file"
    /\ last' = [op |-> "GET /conversations", limit |-> limit]
    /\ out' = IF status # "connected"
              THEN <<Res(400, FALSE, "WhatsApp not connected", "")>>
              ELSE <<ResConversations(200, TRUE,
                        listConversations(conversations, parseLimit(limit), <<>>))>>
    /\ UNCHANGED <<impl, sock, nsock, live, status, qrCode, table, sessionDir,
                   timers, connects, tasks, messages, conversations, arrived>>

(***************************************************************************)
(* The archive of the file engine, from the state in which session 1 has   *)
(* opened: Init, connect() resumed twice, connection.update {open}.        *)
(* The stream delivers chat A's messages one by one with the ids 1, 2, ... *)
(* up to MaxAppend, and up to MaxOther messages of the chats B and G in    *)
(* events of one or two messages.                                          *)
(***************************************************************************)
InitArchive ==
    /\ impl = "file"
    /\ sock = 1
    /\ nsock = 1
    /\ live = {1}
    /\ status = "connected"
    /\ qrCode = Null
    /\ table = <<>>
    /\ sessionDir = [NoDir EXCEPT !.exists = TRUE]
    /\ timers = [d \in Delays |-> 0]
    /\ connects = <<>>
    /\ tasks = <<>>
    /\ messages = <<>>
    /\ conversations = <<>>
    /\ arrived = <<>>
    /\ last = [op |-> "connection.update", s |-> 1, qr |-> NoQr,
               connection |-> "open", reason |-> LoggedOut]
    /\ out = broadcast("connected", Null)

ChatA == Jid("15550000000", Individual)
ChatB == Jid("15551234567", Individual)
ChatG == Jid("120363000000", Group)

Message(jid, id, fromMe, text) ==
    [remoteJid |-> jid, id |-> id, fromMe |-> fromMe, conversation |-> text,
     extendedText |-> "", messageTimestamp |-> id]

Count(jid) == Len(getOrEmpty(arrived, jid))
OtherCount == Count(ChatB) + Count(ChatG)

BulkBatches ==
    IF Count(ChatA) < MaxAppend
    THEN {<<Message(ChatA, Count(ChatA) + 1, FALSE, "hi")>>} ELSE {}

OtherMessages ==
    {Message(ChatB, Count(ChatB) + 1, FALSE, "hi"),
     Message(ChatB, Count(ChatB) + 1, TRUE, ""),
     Message(ChatG, Count(ChatG) + 1, FALSE, "hi")}

OtherBatches ==
    IF OtherCount < MaxOther
    THEN {<<m>> : m \in OtherMessages}
         \cup {<<Message(ChatB, Count(ChatB) + 1, FALSE, "hi"),
                 Message(ChatG, Count(ChatG) + 2, FALSE, "hi")>>}
    ELSE {}

Statuses == {0, 2, 3, 4}
Update(id, st) == [id |-> id, status |-> st]
UpdateBatches ==
    {<<Update(1, st)>> : st \in Statuses}
    \cup {<<Update(1, a), Update(2, b)>> : a \in Statuses, b \in Statuses}

NextArchive ==
    \/ \E b \in BulkBatches \cup OtherBatches, w \in {"2xx", "require"} :
          messagesUpsert(1, "notify", b, w)
    \/ \E b \in OtherBatches : messagesUpsert(1, "append", b, "2xx")
    \/ \E n \in {ChatA.user, ChatB.user}, l \in {0, HistoryCap} : getMessages(n, l)
    \/ \E i \in 1..MaxTasks, o \in LookupOutcomes \ {"empty"} : getMessagesResume(i, o)
    \/ \E l \in {0, 1} : getConversations(l)

(***************************************************************************)
(* The credential store called on its own: saveSession, getSession and     *)
(* deleteSession with any session identifier and blob, each one statement  *)
(* against the table, from the state after the table was created.          *)
(***************************************************************************)
SessionIds == {SessionId, "other"}
Values == {Buffer(1), Plain(1), Plain(2)}
Blobs == {[creds |-> c, keys |-> k] : c \in Values, k \in Values}

callSaveSession(id, data) ==
    /\ table' = saveSession(table, id, data)
    /\ last' = [op |-> "saveSession", id |-> id, data |-> data]
    /\ out' = <<>>
    /\ UNCHANGED <<impl, sock, nsock, live, status, qrCode, sessionDir, timers,
                   connects, tasks, messages, conversations, arrived>>

callGetSession(id) ==
    /\ last' = [op |-> "getSession", id |-> id]
    /\ out' = <<[k |-> "return", value |-> getSession(table, id)]>>
    /\ UNCHANGED <<impl, sock, nsock, live, status, qrCode, table, sessionDir,
                   timers, connects, tasks, messages, conversations, arrived>>

callDeleteSession(id) ==
    /\ table' = deleteSession(table, id)
    /\ last' = [op |-> "deleteSession", id |-> id]
    /\ out' = <<>>
    /\ UNCHANGED <<impl, sock, nsock, live, status, qrCode, sessionDir, timers,
                   connects, tasks, messages, conversations, arrived>>

InitStore == Init /\ impl = "db"

NextStore ==
    \/ \E id \in SessionIds, data \in Blobs : callSaveSession(id, data)
    \/ \E id \in SessionIds : callGetSession(id)
    \/ \E id \in SessionIds : callDeleteSession(id)

(***************************************************************************)
(* Status updates of the file engine next to a small archive: the stream   *)
(* delivers up to MaxOther messages of the chats B and G, and              *)
(* messages.update events of one or two updates.                           *)
(***************************************************************************)
NextStatus ==
    \/ \E b \in OtherBatches, w \in {"2xx", "require"} :
          messagesUpsert(1, "notify", b, w)
    \/ \E u \in UpdateBatches, w \in {"2xx", "4xx", "require"} :
          messagesUpdate(1, u, w)

(***************************************************************************)
(* What the last segment emitted.                                          *)
(***************************************************************************)
Emitted(kind) == SelectSeq(out, LAMBDA e : e.k = kind)
Pending(kind) == {i \in 1..Len(tasks) : tasks[i].kind = kind}
LastN(seq, n) ==
    SubSeq(seq, Len(seq) - (IF Len(seq) < n THEN Len(seq) ELSE n) + 1, Len(seq))

(***************************************************************************)
(* C1: the status never changes from "connected" directly to "qr": every   *)
(* step that sets the status to "qr" starts with the status "disconnected" *)
(* or "qr".                                                                *)
(***************************************************************************)
C1_QrOnlyFromDisconnected ==
    [][(status' = "qr") => (status \in {"disconnected", "qr"})]_vars

(***************************************************************************)
(* C2: at most one reconnection timer is pending at any time.              *)
(***************************************************************************)
C2_OneReconnectTimer == TimerCount(timers) <= 1

(***************************************************************************)
(* C3: in the db engine no handler of a stream event starts while the      *)
(* creds.update handler of an earlier event has not finished its           *)
(* saveSession write.                                                      *)
(***************************************************************************)
C3_WriteBeforeNextEvent ==
    [][(impl = "db" /\ last'.op \in {"connection.update", "creds.update"})
         => (Pending("creds") = {})]_vars

(***************************************************************************)
(* C4: GET /messages/:number?limit=50 answers with the last min(N, 50)     *)
(* records stored for the peer, oldest first, N being the number of        *)
(* records stored for it so far.                                           *)
(***************************************************************************)
C4_RecentFifty ==
    (last.op = "GET /messages.onWhatsApp" /\ last.outcome = "exists"
        /\ last.limit = 50)
    => /\ Len(out) = 1
       /\ out[1].code = 200
       /\ out[1].messages = LastN(getOrEmpty(arrived, last.jid), 50)

C4_Witness ==
    /\ last.op = "GET /messages.onWhatsApp"
    /\ last.outcome = "exists"
    /\ last.limit = 50
    /\ Len(getOrEmpty(arrived, last.jid)) > 50
    /\ Len(out[1].messages) = 50
    /\ out[1].messages[50].id = 51

(***************************************************************************)
(* C5: no entry of the list GET /conversations answers with has a peer     *)
(* identifier on the group server "g.us".                                  *)
(***************************************************************************)
C5_NoGroupListed ==
    (last.op = "GET /conversations" /\ out[1].code = 200)
    => \A i \in 1..Len(out[1].conversations) :
          out[1].conversations[i].id.server # "g.us"

C5_Witness ==
    /\ last.op = "GET /conversations"
    /\ out[1].code = 200
    /\ mapHas(conversations, ChatG)
    /\ mapHas(conversations, ChatA)
    /\ Len(out[1].conversations) = 1

(***************************************************************************)
(* C6: every message of a notify messages.upsert event is stored under its *)
(* full peer identifier and emitted as new-message, and sendWebhook is     *)
(* called for it with message_received once when fromMe is false and not   *)
(* at all when fromMe is true.                                             *)
(***************************************************************************)
C6_EveryMessageHandled ==
    (last.op = "messages.upsert" /\ last.type = "notify")
    => \A j \in 1..Len(last.batch) :
          LET m == last.batch[j]
              stored == getOrEmpty(messages, m.remoteJid)
              calls == SelectSeq(Emitted("sendWebhook"),
                          LAMBDA e : e.event_type = "message_received"
                                     /\ e.message_id = m.id)
          IN /\ \E n \in 1..Len(stored) : stored[n] = messageData(m)
             /\ \E n \in 1..Len(Emitted("new-message")) :
                   Emitted("new-message")[n].record = messageData(m)
             /\ Len(calls) = IF m.fromMe THEN 0 ELSE 1

(***************************************************************************)
(* C7: when the lookup of a POST /send reports that the peer does not      *)
(* exist (an empty result, or exists false), the handler answers 400 and   *)
(* ends: the answer is its only effect and its continuation leaves the    *)
(* pending ones, so it calls neither sendMessage nor sendWebhook.          *)
(***************************************************************************)
C7_UnknownPeerRejected ==
    [][(last'.op = "POST /send.onWhatsApp"
          /\ last'.outcome \in {"empty", "notExists"})
         => /\ Len(out') = 1
            /\ out'[1].k = "res"
            /\ out'[1].code = 400
            /\ \E i \in 1..Len(tasks) :
                  /\ tasks[i].kind = "send"
                  /\ tasks[i].pc = "onWhatsApp"
                  /\ tasks' = Remove(tasks, i)]_vars

C7_Witness ==
    /\ last.op = "POST /send.onWhatsApp"
    /\ last.outcome = "notExists"
    /\ out = <<Res(400, FALSE,
                   IF impl = "db" THEN "Invalid number"
                   ELSE "Number not found on WhatsApp", "")>>

(***************************************************************************)
(* C8: when sendMessage returned an id, sendWebhook is called with         *)
(* message_sent and that id, and the answer is success with that id, also  *)
(* when the delivery fails: file answers at once, db after the awaited     *)
(* sendWebhook settled, whatever its outcome.                              *)
(***************************************************************************)
C8_SentAnswersSuccess ==
    /\ (last.op = "POST /send.sendMessage" /\ last.outcome = "ok")
       => /\ \E n \in 1..Len(out) :
                /\ out[n].k = "sendWebhook"
                /\ out[n].event_type = "message_sent"
                /\ out[n].message_id = last.messageId
          /\ Emitted("res") =
                IF impl = "file"
                THEN <<Res(200, TRUE, "Message sent", last.messageId)>>
                ELSE <<>>
          /\ impl = "db" =>
                \E i \in Pending("send") :
                   /\ tasks[i].pc = "sendWebhook"
                   /\ tasks[i].messageId = last.messageId
    /\ (last.op = "POST /send.sendWebhook")
       => Emitted("res") = <<Res(200, TRUE, "Message sent", last.messageId)>>

C8_Witness ==
    /\ last.op = "POST /send.sendWebhook"
    /\ last.webhook = "network"
    /\ Emitted("log") # <<>>
    /\ Emitted("res") = <<Res(200, TRUE, "Message sent", "ABC123")>>

(***************************************************************************)
(* C9: the service is never idle.  Stated for the state in which           *)
(* POST /disconnect has logged out and cleaned up: a connect() is in       *)
(* flight, or a session is live, or a reconnection timer is pending.       *)
(***************************************************************************)
Idle == connects = <<>> /\ live = {} /\ TimerCount(timers) = 0

C9_NeverIdleAfterDisconnect ==
    (last.op = "POST /disconnect.logout" /\ status # "connected" /\ sock = 0)
    => ~Idle

(***************************************************************************)
(* C10: a close with the reason logged-out sets no timer, a close with any *)
(* other reason sets one timer of 3000 ms, and a connect() that throws     *)
(* sets one timer of 5000 ms.                                              *)
(***************************************************************************)
CloseHandled(l) ==
    /\ l.op \in {"connection.update", "connection.update.qr"}
    /\ l.connection = "close"
    /\ l.op = "connection.update" => l.qr = NoQr

C10_Backoff ==
    [][/\ (CloseHandled(last') /\ last'.reason = LoggedOut)
          => (timers' = timers /\ Emitted("timer")' = <<>>)
       /\ (CloseHandled(last') /\ last'.reason # LoggedOut)
          => /\ timers' = [timers EXCEPT ![3000] = @ + 1]
             /\ Emitted("timer")' = <<[k |-> "timer", delay |-> 3000]>>
       /\ (last'.op = "connect" /\ last'.outcome = "throw")
          => /\ timers' = [timers EXCEPT ![5000] = @ + 1]
             /\ Emitted("timer")' = <<[k |-> "timer", delay |-> 5000]>>]_vars

C10_Witness ==
    /\ CloseHandled(last)
    /\ last.reason # LoggedOut
    /\ timers[3000] = 1
    /\ timers[5000] = 1

(***************************************************************************)
(* C11: each call of sendWebhook makes at most one POST and completes      *)
(* normally.  The segment that calls it emits one sendWebhook and at most  *)
(* one POST; the segment in which the delivery settles emits no further    *)
(* POST, one log entry when the delivery failed and none when it           *)
(* succeeded, and goes on to the handler's success answer.                 *)
(***************************************************************************)
C11_SingleAttempt ==
    /\ (last.op = "POST /send.sendMessage" /\ last.outcome = "ok")
       => /\ Len(Emitted("sendWebhook")) = 1
          /\ Len(Emitted("POST")) <= 1
          /\ impl = "file" =>
                /\ Len(Emitted("log")) = IF last.webhook = "2xx" THEN 0 ELSE 1
                /\ Len(Emitted("res")) = 1
                /\ Emitted("res")[1].code = 200
    /\ (last.op = "POST /send.sendWebhook")
       => /\ Emitted("POST") = <<>>
          /\ Len(Emitted("log")) = IF last.webhook = "2xx" THEN 0 ELSE 1
          /\ Len(Emitted("res")) = 1
          /\ Emitted("res")[1].code = 200

C11_Witness ==
    /\ last.op = "POST /send.sendWebhook"
    /\ last.webhook = "5xx"
    /\ Len(Emitted("log")) = 1
    /\ Emitted("res")[1].success

(***************************************************************************)
(* C12: a POST /send that arrives while the status is not "connected" is   *)
(* answered with 400 and nothing else: no lookup, no sendMessage and no    *)
(* sendWebhook is issued, no continuation is left pending, and the status, *)
(* the QR artifact, the session handle and the archive are unchanged.      *)
(***************************************************************************)
C12_SendWhileNotConnected ==
    [][(last'.op = "POST /send" /\ status # "connected")
         => /\ Len(out') = 1
            /\ out'[1].k = "res"
            /\ out'[1].code = 400
            /\ tasks' = tasks
            /\ status' = status
            /\ qrCode' = qrCode
            /\ sock' = sock
            /\ messages' = messages
            /\ conversations' = conversations]_vars

C12_Witness ==
    /\ last.op = "POST /send"
    /\ last.number # ""
    /\ last.message # ""
    /\ status = "disconnected"
    /\ sock # 0
    /\ out = <<Res(400, FALSE, "WhatsApp not connected", "")>>

(***************************************************************************)
(* C13: the store keeps at most one row per session identifier; a load     *)
(* right after save(id, blob) returns that blob, and the save adds a row   *)
(* only when the identifier had none; a load changes nothing and answers   *)
(* null for an identifier without a row; after a delete the identifier has *)
(* no row.                                                                 *)
(***************************************************************************)
C13_OneRowPerSession ==
    [][/\ \A i, j \in 1..Len(table') :
             table'[i].session_id = table'[j].session_id => i = j
       /\ (last'.op = "saveSession")
          => /\ getSession(table', last'.id) = last'.data
             /\ Len(table') = Len(table)
                               + (IF HasRow(table, last'.id) THEN 0 ELSE 1)
       /\ (last'.op = "getSession")
          => /\ table' = table
             /\ Len(out') = 1
             /\ ~HasRow(table, last'.id) => out'[1].value = NoAuth
       /\ (last'.op = "deleteSession")
          => /\ ~HasRow(table', last'.id)
             /\ getSession(table', last'.id) = NoAuth]_vars

(***************************************************************************)
(* C14: session-establishment attempts never overlap: at most one          *)
(* connect() call is in flight and at most one session made by connect()   *)
(* is live.                                                                *)
(***************************************************************************)
C14_NoOverlappingConnect ==
    /\ Len(connects) <= 1
    /\ Cardinality(live) <= 1

(***************************************************************************)
(* C15: connection.update events take effect in arrival order.  Stated for *)
(* the case the claim names: a qr event is followed by an open event,      *)
(* which is handled while the qr handler is suspended; when the qr handler *)
(* then resumes, the state is still the one the later event left: status   *)
(* "connected" and no QR artifact.                                         *)
(***************************************************************************)
C15_ArrivalOrder ==
    [][(/\ last.op = "connection.update"
        /\ last.qr = NoQr
        /\ last.connection = "open"
        /\ last'.op = "connection.update.qr"
        /\ last'.connection = "undefined")
         => (status' = "connected" /\ qrCode' = Null)]_vars

(***************************************************************************)
(* C16: when the saveSession write of a creds.update handler fails, the    *)
(* failure is caught and logged: the step emits a log entry and no         *)
(* unhandled rejection, and leaves the status, the session handle and the  *)
(* live sessions as they were.                                             *)
(***************************************************************************)
C16_PersistFailureCaught ==
    [][(impl = "db" /\ last'.op = "creds.update.save" /\ last'.outcome = "throw")
         => /\ Emitted("unhandledRejection")' = <<>>
            /\ Emitted("log")' # <<>>
            /\ status' = status
            /\ sock' = sock
            /\ live' = live]_vars

(***************************************************************************)
(* C17: a notify messages.upsert event that carries k messages emits k     *)
(* new-message broadcasts, one per message in the order of the batch, and  *)
(* the record of each message is the newest or an earlier record of its    *)
(* peer's buffer in this.messages and in this.conversations.               *)
(***************************************************************************)
C17_WholeBatchArchived ==
    (last.op = "messages.upsert" /\ last.type = "notify")
    => /\ Emitted("new-message") =
             [j \in 1..Len(last.batch) |->
                [k |-> "new-message", record |-> messageData(last.batch[j])]]
       /\ \A j \in 1..Len(last.batch) :
             LET jid == last.batch[j].remoteJid
                 record == messageData(last.batch[j])
             IN /\ \E n \in 1..Len(getOrEmpty(messages, jid)) :
                      getOrEmpty(messages, jid)[n] = record
                /\ \E n \in 1..Len(getOrEmpty(conversations, jid)) :
                      getOrEmpty(conversations, jid)[n] = record

(***************************************************************************)
(* C18: every per-peer sequence of the archive, in this.messages and in    *)
(* this.conversations, holds the last records stored for the peer, at most *)
(* 50 of them: the oldest is dropped when a 51st is appended.              *)
(***************************************************************************)
C18_BothBuffersBounded ==
    /\ \A i \in 1..Len(messages) :
          /\ Len(messages[i].value) <= 50
          /\ messages[i].value = LastN(getOrEmpty(arrived, messages[i].key), 50)
    /\ \A i \in 1..Len(conversations) :
          /\ Len(conversations[i].value) <= 50
          /\ conversations[i].value
                = LastN(getOrEmpty(arrived, conversations[i].key), 50)

(***************************************************************************)
(* C19: for every update of a messages.update event, sendWebhook is called *)
(* once with message_delivered when the status is 3, once with             *)
(* message_read when it is 4, and not at all otherwise; the event leaves   *)
(* the archived records unchanged.                                         *)
(***************************************************************************)
C19_StatusUpdates ==
    [][(last'.op = "messages.update")
         => /\ \A j \in 1..Len(last'.updates) :
                  LET u == last'.updates[j]
                      calls(event) ==
                          SelectSeq(Emitted("sendWebhook")',
                                    LAMBDA e : e.event_type = event
                                               /\ e.message_id = u.id)
                  IN /\ Len(calls("message_delivered"))
                          = IF u.status = 3 THEN 1 ELSE 0
                     /\ Len(calls("message_read"))
                          = IF u.status = 4 THEN 1 ELSE 0
            /\ \A n \in 1..Len(Emitted("sendWebhook")') :
                  Emitted("sendWebhook")'[n].event_type
                     \in {"message_delivered", "message_read"}
            /\ messages' = messages
            /\ conversations' = conversations]_vars

C19_Witness ==
    /\ last.op = "messages.update"
    /\ Len(last.updates) = 2
    /\ last.updates[1].status = 3
    /\ last.updates[2].status = 4
    /\ Len(Emitted("sendWebhook")) = 2
    /\ Emitted("sendWebhook")[1].event_type = "message_delivered"
    /\ Emitted("sendWebhook")[2].event_type = "message_read"
    /\ messages # <<>>

(***************************************************************************)
(* C20: status and qr are broadcast together; a step that changes the      *)
(* status or the QR artifact broadcasts, and the last status and qr a step *)
(* broadcasts are the status and the QR artifact the step leaves in the    *)
(* state, so that the change is announced before any other handler runs    *)
(* and no subscriber is left with a value the state does not hold.         *)
(***************************************************************************)
C20_BroadcastCommitted ==
    [][LET st == Emitted("status")'
           q == Emitted("qr")'
       IN /\ Len(st) = Len(q)
          /\ (status' # status \/ qrCode' # qrCode) => Len(st) >= 1
          /\ Len(st) >= 1 => (st[Len(st)].v = status' /\ q[Len(q)].q = qrCode')]_vars

C20_Witness ==
    /\ last.op = "connection.update.qr"
    /\ last.connection = "close"
    /\ Len(Emitted("status")) = 2
    /\ Emitted("status")[1].v = "qr"
    /\ Emitted("qr")[1].q = toDataURL("XYZ")
    /\ Emitted("status")[2].v = "disconnected"
    /\ status = "disconnected"
    /\ qrCode = Null

C22_CredentialsCleared ==
    (last.op = "POST /disconnect.logout" /\ last.outcome = "ok")
    => /\ ~HasRow(table, SessionId)
       /\ getSession(table, SessionId) = NoAuth
       /\ DirAuth(sessionDir) = NoAuth

(***************************************************************************)
(* C23: in every state between two handlers, which is what GET /status and *)
(* a new subscriber read, the QR artifact is present exactly when the      *)
(* status is "qr".                                                         *)
(***************************************************************************)
C23_QrIffStatusQr ==
    /\ status = "qr" => qrCode # Null
    /\ status \in {"connected", "disconnected"} => qrCode = Null

C23_Witness ==
    /\ status = "qr"
    /\ qrCode = toDataURL("XYZ")
    /\ last.op = "connection.update.qr"
    /\ last.connection = "undefined"

(***************************************************************************)
(* C24: only the session this.sock refers to drives the connection state:  *)
(* the handling of a connection.update event of a session that connect()   *)
(* has replaced or cleanup() has cleared changes neither the status nor    *)
(* the QR artifact and sets no timer.                                      *)
(***************************************************************************)
C24_SupersededSessionIgnored ==
    [][(last'.op \in {"connection.update", "connection.update.qr"}
          /\ last'.s # sock)
         => /\ status' = status
            /\ qrCode' = qrCode
            /\ timers' = timers]_vars

(***************************************************************************)
(* The session: connect(), its timers, the stream's connection.update and  *)
(* creds.update, and POST /disconnect.                                     *)
(***************************************************************************)
Next ==
    \/ \E d \in Delays : TimerFires(d)
    \/ \E i \in 1..MaxConnects, o \in LoadOutcomes : connectResume(i, o)
    \/ \E s \in 1..MaxSocks, qr \in RawQrs \cup {NoQr}, c \in Connections, r \in Reasons :
          connectionUpdate(s, qr, c, r)
    \/ \E i \in 1..MaxTasks : qrResume(i)
    \/ \E s \in 1..MaxSocks : credsUpdate(s)
    \/ \E i \in 1..MaxTasks, o \in Outcomes : credsResume(i, o)
    \/ disconnect
    \/ \E i \in 1..MaxTasks, o \in Outcomes : disconnectResume(i, o)

(***************************************************************************)
(* POST /send against a session that connects, opens, closes and is        *)
(* disconnected.                                                           *)
(***************************************************************************)
NextSend ==
    \/ \E d \in Delays : TimerFires(d)
    \/ \E i \in 1..MaxConnects, o \in Outcomes : connectResume(i, o)
    \/ \E s \in 1..MaxSocks, c \in Connections, r \in Reasons :
          connectionUpdate(s, NoQr, c, r)
    \/ disconnect
    \/ \E i \in 1..MaxTasks, o \in Outcomes : disconnectResume(i, o)
    \/ \E n \in Numbers, m \in Texts : send(n, m)
    \/ \E i \in 1..MaxTasks, o \in LookupOutcomes : sendLookup(i, o)
    \/ \E i \in 1..MaxTasks, o \in Outcomes, id \in MessageIds, w \in WebhookOutcomes :
          sendSent(i, o, id, w)
    \/ \E i \in 1..MaxTasks, w \in WebhookOutcomes : sendAnswer(i, w)

Spec == Init /\ [][Next]_vars

SpecSend == Init /\ [][NextSend]_vars

SpecArchive == InitArchive /\ [][NextArchive]_vars

SpecStore == InitStore /\ [][NextStore]_vars

SpecStatus == InitArchive /\ [][NextStatus]_vars

====
